---- MODULE Spec2Model ----
(***************************************************************************)
(* Model of shared/types/models.py of HabitCraft: the pydantic record      *)
(* types HabitInput, Habit and UserRegistration, their field constraints,  *)
(* the two validators of HabitInput, and what a holder of a constructed    *)
(* Habit can do to it.                                                     *)
(*                                                                         *)
(* Values.  A raw (untyped) value is a tagged tuple:                       *)
(*   <<"absent">>        the key is not in the input mapping               *)
(*   <<"none">>          Python None                                       *)
(*   <<"str", s>>        a str, s the sequence of its characters           *)
(*   <<"int", n>>        an int                                            *)
(*   <<"float", n, t>>   the float n + t/10 (t in 0..9)                    *)
(*   <<"bool", b>>       a bool                                            *)
(*   <<"datetime", n>>   a datetime                                        *)
(*   <<"list", es>>      a list, es the sequence of its entries            *)
(* A validated List[int] field holds <<"list", ns>> with ns a sequence of  *)
(* plain integers.  The models use the pydantic 2 semantics that the       *)
(* Config key from_attributes belongs to: lax type coercion first, then    *)
(* the @validator functions (mode "after"), errors collected per field.    *)
(***************************************************************************)
EXTENDS Integers, Sequences, FiniteSets, TLC

VARIABLES pc, payload, result, original, habits, heap

vars == <<pc, payload, result, original, habits, heap>>

-----------------------------------------------------------------------------
(* Raw values *)

Absent == <<"absent">>
None == <<"none">>
Str(s) == <<"str", s>>
IntV(n) == <<"int", n>>
Float(n, t) == <<"float", n, t>>
Bool(b) == <<"bool", b>>
Datetime(n) == <<"datetime", n>>
List(es) == <<"list", es>>

IsStr(v) == v[1] = "str"
IsList(v) == v[1] = "list"

Chars(n, c) == [i \in 1..n |-> c]

\* Python truthiness of None, a str or a list: "if v".
Truthy(v) ==
  CASE v[1] = "none" -> FALSE
    [] v[1] = "str" -> Len(v[2]) > 0
    [] v[1] = "list" -> Len(v[2]) > 0
    [] OTHER -> TRUE

-----------------------------------------------------------------------------
(* Program constants *)

PasswordMinLen == 8
UserNameMinLen == 1
NameMinLen == 1
NameMaxLen == 100
DescriptionMaxLen == 500
HexLen == 6
DayMin == 0
DayMax == 6

S_daily == <<"d", "a", "i", "l", "y">>
S_weekly == <<"w", "e", "e", "k", "l", "y">>
S_custom == <<"c", "u", "s", "t", "o", "m">>
S_active == <<"a", "c", "t", "i", "v", "e">>
S_archived == <<"a", "r", "c", "h", "i", "v", "e", "d">>

HabitFrequency == {S_daily, S_weekly, S_custom}
HabitStatus == {S_active, S_archived}

DefaultColor == <<"#", "3", "B", "8", "2", "F", "6">>
\* The star glyph U+2B50, one character.
DefaultIcon == <<"U+2B50">>
DefaultStatus == S_active

HabitInputFields ==
  {"name", "description", "frequency", "target_days", "color", "icon"}
HabitFields ==
  HabitInputFields \cup {"id", "user_id", "status", "created_at", "updated_at"}
UserRegistrationFields == {"email", "password", "name"}

-----------------------------------------------------------------------------
(* Field results: the validated value, or the reasons the field is refused *)

Ok(v) == [errs |-> {}, val |-> v]
Err(r) == [errs |-> {r}, val |-> None]

\* Field(default=...): the default stands in for an absent key only.
ApplyDefaultIfFalsy(v, d) == IF v = Absent \/ ~Truthy(v) THEN d ELSE v

ApplyDefault(v, d) == IF v = Absent THEN d ELSE v

\* re.match(r'^#[0-9A-Fa-f]{6}$', s): '^' and re.match anchor at the start;
\* '$' matches at the end of the string and also just before a newline that
\* is the last character.
HexDigits ==
  {"0", "1", "2", "3", "4", "5", "6", "7", "8", "9",
   "A", "B", "C", "D", "E", "F", "a", "b", "c", "d", "e", "f"}

UpperHexDigits ==
  {"0", "1", "2", "3", "4", "5", "6", "7", "8", "9",
   "A", "B", "C", "D", "E", "F"}

ReMatchWith(digits, s) ==
  /\ Len(s) >= HexLen + 1
  /\ s[1] = "#"
  /\ \A i \in 2..(HexLen + 1) : s[i] \in digits
  /\ \/ Len(s) = HexLen + 1
     \/ Len(s) = HexLen + 2 /\ s[HexLen + 2] = "\n"

ReMatchHexColor(s) == ReMatchWith(HexDigits, s)

validate_color_upper_only(v) ==
  IF Truthy(v) /\ ~ReMatchWith(UpperHexDigits, v[2])
    THEN Err("value_error")
    ELSE Ok(v)

\* HabitInput.validate_color, called with the str or None that was supplied.
validate_color(v) ==
  IF Truthy(v) /\ ~ReMatchHexColor(v[2])
    THEN Err("value_error")
    ELSE Ok(v)

validate_target_days_exclusive(v) ==
  IF Truthy(v) /\ \E i \in 1..Len(v[2]) : v[2][i] <= DayMin \/ v[2][i] >= DayMax
    THEN Err("value_error")
    ELSE Ok(v)

\* HabitInput.validate_target_days, called with None or the coerced list of
\* ints (isinstance(day, int) is then true of every entry).
validate_target_days(v) ==
  IF Truthy(v) /\ \E i \in 1..Len(v[2]) : v[2][i] < DayMin \/ v[2][i] > DayMax
    THEN Err("value_error")
    ELSE Ok(v)

\* int(): the digits of a str, with an optional sign.
DigitVal(c) ==
  CASE c = "0" -> 0 [] c = "1" -> 1 [] c = "2" -> 2 [] c = "3" -> 3
    [] c = "4" -> 4 [] c = "5" -> 5 [] c = "6" -> 6 [] c = "7" -> 7
    [] c = "8" -> 8 [] c = "9" -> 9 [] OTHER -> -1

RECURSIVE DigitsVal(_)
DigitsVal(s) ==
  IF s = <<>> THEN 0
  ELSE 10 * DigitsVal(SubSeq(s, 1, Len(s) - 1)) + DigitVal(s[Len(s)])

AllDigits(s) == Len(s) > 0 /\ \A i \in 1..Len(s) : DigitVal(s[i]) >= 0

\* The element type int of List[int], lax mode: [errs, val].
CoerceInt(e) ==
  CASE e[1] = "int" -> Ok(e[2])
    [] e[1] = "bool" -> Ok(IF e[2] THEN 1 ELSE 0)
    [] e[1] = "float" -> IF e[3] = 0 THEN Ok(e[2]) ELSE Err("int_from_float")
    [] e[1] = "str" ->
         IF AllDigits(e[2]) THEN Ok(DigitsVal(e[2]))
         ELSE IF Len(e[2]) > 1 /\ e[2][1] = "-" /\ AllDigits(Tail(e[2]))
           THEN Ok(0 - DigitsVal(Tail(e[2])))
         ELSE Err("int_parsing")
    [] OTHER -> Err("int_type")

-----------------------------------------------------------------------------
(* The fields of HabitInput *)

name_field(v) ==
  IF v = Absent THEN Err("missing")
  ELSE IF ~IsStr(v) THEN Err("string_type")
  ELSE IF Len(v[2]) < NameMinLen THEN Err("string_too_short")
  ELSE IF Len(v[2]) > NameMaxLen THEN Err("string_too_long")
  ELSE Ok(v)

description_field(v) ==
  LET w == ApplyDefault(v, None) IN
  IF w # v \/ v = None THEN Ok(w)
  ELSE IF ~IsStr(v) THEN Err("string_type")
  ELSE IF Len(v[2]) > DescriptionMaxLen THEN Err("string_too_long")
  ELSE Ok(v)

frequency_field(v) ==
  IF v = Absent THEN Err("missing")
  ELSE IF IsStr(v) /\ v[2] \in HabitFrequency THEN Ok(v)
  ELSE Err("literal_error")

\* default_factory=list stands in for an absent key; a default is not
\* validated.  A supplied list is coerced entry by entry, then validated.
target_days_field(v) ==
  LET w == ApplyDefault(v, List(<<>>)) IN
  IF w # v THEN Ok(w)
  ELSE IF v = None THEN validate_target_days(None)
  ELSE IF ~IsList(v) THEN Err("list_type")
  ELSE LET cs == [i \in 1..Len(v[2]) |-> CoerceInt(v[2][i])]
           es == UNION {cs[i].errs : i \in 1..Len(cs)}
       IN IF es # {} THEN [errs |-> es, val |-> None]
          ELSE validate_target_days(List([i \in 1..Len(cs) |-> cs[i].val]))

color_field(v) ==
  LET w == ApplyDefault(v, Str(DefaultColor)) IN
  IF w # v THEN Ok(w)
  ELSE IF v = None \/ IsStr(v) THEN validate_color(v)
  ELSE Err("string_type")

icon_field(v) ==
  LET w == ApplyDefault(v, Str(DefaultIcon)) IN
  IF w # v \/ v = None \/ IsStr(v) THEN Ok(w)
  ELSE Err("string_type")

(* The fields Habit adds *)

id_field(v) ==
  IF v = Absent THEN Err("missing")
  ELSE IF ~IsStr(v) THEN Err("string_type")
  ELSE Ok(v)

status_field(v) ==
  LET w == ApplyDefault(v, Str(DefaultStatus)) IN
  IF w # v THEN Ok(w)
  ELSE IF IsStr(v) /\ v[2] \in HabitStatus THEN Ok(v)
  ELSE Err("literal_error")

datetime_field(v) ==
  IF v = Absent THEN Err("missing")
  ELSE IF v[1] # "datetime" THEN Err("datetime_type")
  ELSE Ok(v)

(* The fields of UserRegistration *)

\* EmailStr: one "@", a non-empty local part, and a domain of non-empty
\* labels with at least one dot.
EmailValid(s) ==
  LET ats == {i \in 1..Len(s) : s[i] = "@"} IN
  /\ Cardinality(ats) = 1
  /\ LET a == CHOOSE i \in ats : TRUE
         dots == {i \in (a + 1)..Len(s) : s[i] = "."}
     IN /\ a > 1
        /\ dots # {}
        /\ \A i \in dots : i > a + 1 /\ i < Len(s) /\ (i + 1) \notin dots
        /\ \A i \in 1..Len(s) : s[i] # " "

email_field(v) ==
  IF v = Absent THEN Err("missing")
  ELSE IF ~IsStr(v) THEN Err("string_type")
  ELSE IF ~EmailValid(v[2]) THEN Err("value_error")
  ELSE Ok(v)

password_field_off_by_one(v) ==
  IF v = Absent THEN Err("missing")
  ELSE IF ~IsStr(v) THEN Err("string_type")
  ELSE IF Len(v[2]) <= PasswordMinLen THEN Err("string_too_short")
  ELSE Ok(v)

password_field(v) ==
  IF v = Absent THEN Err("missing")
  ELSE IF ~IsStr(v) THEN Err("string_type")
  ELSE IF Len(v[2]) < PasswordMinLen THEN Err("string_too_short")
  ELSE Ok(v)

user_name_field(v) ==
  IF v = Absent THEN Err("missing")
  ELSE IF ~IsStr(v) THEN Err("string_type")
  ELSE IF Len(v[2]) < UserNameMinLen THEN Err("string_too_short")
  ELSE Ok(v)

-----------------------------------------------------------------------------
(* Construction: every field is validated, and the errors of all fields    *)
(* are collected; a record is produced only when there are none.           *)

ValidateField(model, f, v) ==
  IF model = "UserRegistration"
    THEN CASE f = "email" -> email_field(v)
           [] f = "password" -> password_field(v)
           [] f = "name" -> user_name_field(v)
    ELSE CASE f = "name" -> name_field(v)
           [] f = "description" -> description_field(v)
           [] f = "frequency" -> frequency_field(v)
           [] f = "target_days" -> target_days_field(v)
           [] f = "color" -> color_field(v)
           [] f = "icon" -> icon_field(v)
           [] f = "id" -> id_field(v)
           [] f = "user_id" -> id_field(v)
           [] f = "status" -> status_field(v)
           [] f = "created_at" -> datetime_field(v)
           [] f = "updated_at" -> datetime_field(v)

FieldsOf(model) ==
  CASE model = "HabitInput" -> HabitInputFields
    [] model = "Habit" -> HabitFields
    [] model = "UserRegistration" -> UserRegistrationFields

NoRecord == <<>>

\* ValidationError.errors(): a (field, reason) pair for every refusal.
CollectErrors(model, fr) ==
  UNION {{<<f, r>> : r \in fr[f].errs} : f \in FieldsOf(model)}

Construct(model, p) ==
  LET fr == [f \in FieldsOf(model) |-> ValidateField(model, f, p[f])]
      es == CollectErrors(model, fr)
  IN IF es = {}
       THEN [kind |-> "record", model |-> model,
             record |-> [f \in FieldsOf(model) |-> fr[f].val], errors |-> {}]
       ELSE [kind |-> "error", model |-> model, record |-> NoRecord, errors |-> es]

HabitInput(p) == Construct("HabitInput", p)
Habit(p) == Construct("Habit", p)
UserRegistration(p) == Construct("UserRegistration", p)

\* model_dump() that leaves out the fields holding None.
SerializeExcludeNone(r) ==
  [f \in DOMAIN r |->
     IF r[f] = None THEN Absent
     ELSE IF IsList(r[f])
       THEN List([i \in 1..Len(r[f][2]) |-> IntV(r[f][2][i])])
       ELSE r[f]]

\* model_dump(): the field mapping of a record, every declared field present.
Serialize(r) ==
  [f \in DOMAIN r |->
     IF IsList(r[f])
       THEN List([i \in 1..Len(r[f][2]) |-> IntV(r[f][2][i])])
       ELSE r[f]]

-----------------------------------------------------------------------------
(* Bounds of the inputs *)

\* The longest target_days list supplied to a constructor.
MaxTargetDays == 2
\* The longest password supplied to UserRegistration.
MaxPasswordLen == 9
\* The number of Habit records a holder keeps.
MaxHabits == 2
\* The number of entries a holder adds to one list.
MaxAppends == 2

-----------------------------------------------------------------------------
(* Inputs *)

S_run == <<"R", "u", "n">>
S_red == <<"r", "e", "d">>

HabitPayload(n, d, fq, td, c, ic, hid, st) ==
  [name |-> n, description |-> d, frequency |-> fq, target_days |-> td,
   color |-> c, icon |-> ic, id |-> hid, user_id |-> Str(<<"u", "1">>),
   status |-> st, created_at |-> Datetime(1), updated_at |-> Datetime(2)]

\* Entries of a supplied target_days list: ints around the range 0..6, and
\* values that are not ints.
RawEntries ==
  {IntV(n) : n \in (DayMin - 1)..(DayMax + 1)}
    \cup {Str(<<"3">>), Str(<<"7">>), Str(<<"-", "1">>), Str(<<"x">>)}
    \cup {Float(3, 0), Float(3, 5), Float(7, 0)}
    \cup {Bool(TRUE), None}

\* The sequences over S of length at most n.
SeqsUpTo(S, n) == UNION {[1..k -> S] : k \in 0..n}

TargetDaysInputs ==
  {Absent, None} \cup {List(q) : q \in SeqsUpTo(RawEntries, MaxTargetDays)}

\* Color strings: the spec's examples, and every string one edit (a character
\* replaced, removed or inserted) away from a well-formed color.
WellFormedColors ==
  {DefaultColor,
   <<"#", "a", "b", "c", "d", "e", "f">>,
   <<"#", "0", "0", "F", "f", "9", "a">>}

EditChars == {"#", "9", "A", "f", "G", "g", "\n", " "}

Replace(q, i, c) == [q EXCEPT ![i] = c]
Remove(q, i) == SubSeq(q, 1, i - 1) \o SubSeq(q, i + 1, Len(q))
Insert(q, i, c) == SubSeq(q, 1, i) \o <<c>> \o SubSeq(q, i + 1, Len(q))

OneEdit(q) ==
  {Replace(q, i, c) : i \in 1..Len(q), c \in EditChars}
    \cup {Remove(q, i) : i \in 1..Len(q)}
    \cup {Insert(q, i, c) : i \in 0..Len(q), c \in EditChars}

ColorStrings ==
  {<<>>, S_red, <<"#", "1", "2">>, <<"1", "2", "3", "4", "5", "6">>}
    \cup WellFormedColors
    \cup UNION {OneEdit(q) : q \in WellFormedColors}

ColorInputs == {Absent, None} \cup {Str(q) : q \in ColorStrings}

\* The payload varies one of color and target_days over all its inputs.
ColorPayload ==
  \E c \in ColorInputs, td \in {Absent, List(<<IntV(DayMax + 1)>>)} :
    payload = HabitPayload(Str(S_run), Absent, Str(S_weekly), td, c, Absent,
                           Str(<<"h", "1">>), Absent)

TargetDaysPayload ==
  \E td \in TargetDaysInputs, c \in {Absent, Str(S_red)} :
    payload = HabitPayload(Str(S_run), None, Str(S_custom), td, c, None,
                           Str(<<"h", "1">>), Str(S_archived))

\* The payload varies every field at once over a few values each.
CrossPayload ==
  \E n \in {Absent, Str(<<>>), Str(Chars(NameMaxLen, "n")),
             Str(Chars(NameMaxLen + 1, "n"))},
     d \in {Absent, None, Str(Chars(DescriptionMaxLen + 1, "d"))},
     fq \in {Absent, Str(S_daily), Str(<<"m", "o", "n", "t", "h", "l", "y">>)},
     td \in {Absent, List(<<>>), List(<<IntV(1), IntV(0)>>),
             List(<<IntV(DayMax + 1)>>)},
     c \in {Absent, Str(<<>>), Str(<<"#", "A", "b", "0", "9", "f", "E">>),
            Str(S_red), Str(<<"#", "A", "B", "C", "D", "E", "F", "\n">>)},
     ic \in {Absent, Str(<<>>), Str(<<"x">>)},
     hid \in {Absent, Str(<<"h", "1">>)},
     st \in {Absent, Str(<<>>), Str(S_active), Str(S_archived),
             Str(<<"d", "e", "l", "e", "t", "e", "d">>)} :
    payload = HabitPayload(n, d, fq, td, c, ic, hid, st)

\* The payload is at the length limits of name and description.
LengthPayload ==
  \E n \in {Str(Chars(NameMinLen, "n")), Str(Chars(NameMaxLen, "n")),
             Str(Chars(NameMaxLen + 1, "n"))},
     d \in {None, Str(<<>>), Str(Chars(DescriptionMaxLen, "d")),
            Str(Chars(DescriptionMaxLen + 1, "d"))} :
    payload = HabitPayload(n, d, Str(S_daily), Absent, Absent, Absent,
                           Str(<<"h", "1">>), Absent)

PasswordInputs ==
  {Absent} \cup {Str(Chars(n, c)) : n \in 0..MaxPasswordLen, c \in {"p", " "}}

RegistrationPayload ==
  \E e \in {Absent, Str(<<"a", "@", "b", ".", "i", "o">>), Str(<<"a", "b", ".", "i", "o">>),
             Str(<<"a", "@", "b">>)},
     pw \in PasswordInputs,
     n \in {Absent, Str(<<>>), Str(<<"A", "l">>)} :
    payload = [email |-> e, password |-> pw, name |-> n]

\* What a holder constructs its records from.
HeldPayloads ==
  {HabitPayload(Str(S_run), Absent, Str(S_daily), td, Absent, Absent,
                Str(<<"h", "1">>), Absent) :
     td \in {Absent, List(<<IntV(1)>>), List(<<IntV(DayMax + 1)>>)}}

-----------------------------------------------------------------------------
(* State *)

NoResult == [kind |-> "none", model |-> "none", record |-> NoRecord, errors |-> {}]
NoOriginal == [set |-> FALSE, record |-> NoRecord]

IsHabitPayload(p) == "frequency" \in DOMAIN p

\* A constructor is about to be called with payload.
Init ==
  /\ pc = "start"
  /\ \/ ColorPayload
     \/ TargetDaysPayload
     \/ CrossPayload
     \/ LengthPayload
     \/ RegistrationPayload
  /\ result = NoResult
  /\ original = NoOriginal
  /\ habits = <<>>
  /\ heap = <<>>

ConstructHabitInput ==
  /\ pc = "start"
  /\ IsHabitPayload(payload)
  /\ result' = HabitInput(payload)
  /\ pc' = "done"
  /\ UNCHANGED <<payload, original, habits, heap>>

ConstructHabit ==
  /\ pc = "start"
  /\ IsHabitPayload(payload)
  /\ result' = Habit(payload)
  /\ pc' = "done"
  /\ UNCHANGED <<payload, original, habits, heap>>

ConstructUserRegistration ==
  /\ pc = "start"
  /\ ~IsHabitPayload(payload)
  /\ result' = UserRegistration(payload)
  /\ pc' = "done"
  /\ UNCHANGED <<payload, original, habits, heap>>

\* Habit(**habit.model_dump()) of the Habit just constructed.
RoundTrip ==
  /\ pc = "done"
  /\ result.model = "Habit"
  /\ result.kind = "record"
  /\ original' = [set |-> TRUE, record |-> result.record]
  /\ payload' = Serialize(result.record)
  /\ result' = Habit(payload')
  /\ pc' = "roundtrip"
  /\ UNCHANGED <<habits, heap>>

Next ==
  \/ ConstructHabitInput
  \/ ConstructHabit
  \/ ConstructUserRegistration
  \/ RoundTrip

Spec == Init /\ [][Next]_vars

-----------------------------------------------------------------------------
(* A holder of Habit records.  A list is an object on the heap; a record's *)
(* target_days refers to one (<<"ref", k>>) or is None.  Each held record  *)
(* remembers its fields as constructed (orig) and the entries its holder   *)
(* added through it (appended).                                            *)

AllocList(hp, items, origin) ==
  [heap |-> Append(hp, [items |-> items, origin |-> origin]), ref |-> Len(hp) + 1]

\* One list object shared by every record that takes the default.
SharedDefaultList(hp) ==
  LET ds == {k \in 1..Len(hp) : hp[k].origin = "default_factory"}
  IN IF ds = {} THEN AllocList(hp, <<>>, "default_factory")
     ELSE [heap |-> hp, ref |-> CHOOSE k \in ds : \A j \in ds : k <= j]

\* default_factory=list: list() is called for each record.
DefaultFactoryList(hp) == AllocList(hp, <<>>, "default_factory")

Deref(hp, v) == IF v[1] = "ref" THEN List(hp[v[2]].items) ELSE v

\* The field values of held record h.
HabitValue(h) == [h.fields EXCEPT !.target_days = Deref(heap, @)]

InitHold ==
  /\ pc = "hold"
  /\ payload = <<>>
  /\ result = NoResult
  /\ original = NoOriginal
  /\ habits = <<>>
  /\ heap = <<>>

\* h = Habit(**p); the holder keeps h when construction succeeds.
NewHabit ==
  /\ pc = "hold"
  /\ Len(habits) < MaxHabits
  /\ \E p \in HeldPayloads :
       LET r == Habit(p)
           td == IF r.kind = "record" THEN r.record.target_days ELSE None
           a == IF p.target_days = Absent THEN DefaultFactoryList(heap)
                ELSE IF IsList(td) THEN AllocList(heap, td[2], "validated")
                ELSE [heap |-> heap, ref |-> 0]
       IN /\ payload' = p
          /\ result' = r
          /\ IF r.kind = "record"
               THEN /\ heap' = a.heap
                    /\ habits' = Append(habits,
                         [fields |-> [r.record EXCEPT !.target_days =
                                        IF a.ref = 0 THEN None ELSE <<"ref", a.ref>>],
                          orig |-> r.record,
                          defaulted |-> (p.target_days = Absent),
                          appended |-> <<>>])
               ELSE UNCHANGED <<habits, heap>>
  /\ UNCHANGED <<pc, original>>

\* h.color = v: Config sets neither frozen nor validate_assignment, so the
\* attribute is set to whatever is assigned.
SetColor ==
  /\ pc = "hold"
  /\ \E i \in 1..Len(habits), v \in {Str(S_red)} :
       /\ habits[i].fields.color # v
       /\ habits' = [habits EXCEPT ![i].fields.color = v]
  /\ UNCHANGED <<pc, payload, result, original, heap>>

\* h.target_days.append(d)
AppendTargetDay ==
  /\ pc = "hold"
  /\ \E i \in 1..Len(habits), d \in {DayMax + 1} :
       LET ref == habits[i].fields.target_days IN
       /\ ref[1] = "ref"
       /\ Len(habits[i].appended) < MaxAppends
       /\ heap' = [heap EXCEPT ![ref[2]].items = Append(@, d)]
       /\ habits' = [habits EXCEPT ![i].appended = Append(@, d)]
  /\ UNCHANGED <<pc, payload, result, original>>

NextHold ==
  \/ NewHabit
  \/ SetColor
  \/ AppendTargetDay

SpecHold == InitHold /\ [][NextHold]_vars

-----------------------------------------------------------------------------
(* The constraints as the specification states them *)

\* A string matching ^#[0-9A-Fa-f]{6}$ in full: "#" and six hex digits.
IsHexColor(q) ==
  /\ Len(q) = 7
  /\ q[1] = "#"
  /\ \A i \in 2..7 : q[i] \in HexDigits

IsDayEntry(e) == e[1] = "int" /\ e[2] >= 0 /\ e[2] <= 6

Satisfies(f, v) ==
  CASE f = "name" -> IsStr(v) /\ Len(v[2]) >= 1 /\ Len(v[2]) <= 100
    [] f = "description" -> v \in {Absent, None} \/ (IsStr(v) /\ Len(v[2]) <= 500)
    [] f = "frequency" -> IsStr(v) /\ v[2] \in {S_daily, S_weekly, S_custom}
    [] f = "target_days" ->
         v \in {Absent, None}
           \/ (IsList(v) /\ \A i \in 1..Len(v[2]) : IsDayEntry(v[2][i]))
    [] f = "color" -> v \in {Absent, None} \/ (IsStr(v) /\ IsHexColor(v[2]))
    [] f = "icon" -> v \in {Absent, None} \/ IsStr(v)
    [] f = "id" -> IsStr(v)
    [] f = "user_id" -> IsStr(v)
    [] f = "status" -> v = Absent \/ (IsStr(v) /\ v[2] \in {S_active, S_archived})
    [] f = "created_at" -> v[1] = "datetime"
    [] f = "updated_at" -> v[1] = "datetime"

\* A Habit or HabitInput constructor has just returned.
HabitConstructed == pc = "done" /\ result.model \in {"Habit", "HabitInput"}

\* Every field of the payload but those in fs satisfies its constraint.
OthersSatisfied(fs) ==
  \A f \in FieldsOf(result.model) \ fs : Satisfies(f, payload[f])

Names(f) == \E e \in result.errors : e[1] = f

Rejected == result.kind = "error" /\ result.record = NoRecord

-----------------------------------------------------------------------------
(* C1 *)

\* C1: a color string that does not match ^#[0-9A-Fa-f]{6}$ (the empty string
\* and a color followed by a newline included) makes construction of a
\* HabitInput or Habit fail with an error naming color, and no record.
C1_NonMatchingColorRejected ==
  (HabitConstructed /\ IsStr(payload.color) /\ ~IsHexColor(payload.color[2]))
    => (Rejected /\ Names("color"))

(* C2 *)

\* C2: with a color matching ^#[0-9A-Fa-f]{6}$ and otherwise valid fields,
\* construction of a Habit succeeds and the record's color is the supplied
\* string, exactly.
C2_MatchingColorKept ==
  (/\ pc = "done"
   /\ result.model = "Habit"
   /\ IsStr(payload.color)
   /\ IsHexColor(payload.color[2])
   /\ OthersSatisfied({"color"}))
    => (result.kind = "record" /\ result.record.color = payload.color)

\* A Habit was constructed with a color of mixed-case hex digits.
C2_Witness ==
  /\ pc = "done"
  /\ result.model = "Habit"
  /\ result.kind = "record"
  /\ payload.color = Str(<<"#", "0", "0", "F", "f", "9", "a">>)

(* C3 *)

\* C3: a target_days list holding a value outside 0..6 or a non-integer, at
\* any position, makes construction of a HabitInput or Habit fail, and no
\* record is produced.
C3_BadTargetDaysRejected ==
  (/\ HabitConstructed
   /\ IsList(payload.target_days)
   /\ \E i \in 1..Len(payload.target_days[2]) :
        ~IsDayEntry(payload.target_days[2][i]))
    => Rejected

(* C4 *)

\* C4: with a target_days list of integers in 0..6 and otherwise valid
\* fields, construction succeeds and the record's target_days is the supplied
\* sequence, entry for entry in the same order.
C4_TargetDaysKept ==
  (/\ HabitConstructed
   /\ IsList(payload.target_days)
   /\ \A i \in 1..Len(payload.target_days[2]) :
        IsDayEntry(payload.target_days[2][i])
   /\ OthersSatisfied({"target_days"}))
    => /\ result.kind = "record"
       /\ IsList(result.record.target_days)
       /\ Len(result.record.target_days[2]) = Len(payload.target_days[2])
       /\ \A i \in 1..Len(payload.target_days[2]) :
            result.record.target_days[2][i] = payload.target_days[2][i][2]

\* A record was constructed from an unsorted list with both ends of the range.
C4_Witness ==
  /\ HabitConstructed
  /\ result.kind = "record"
  /\ payload.target_days = List(<<IntV(6), IntV(0)>>)

(* C5 *)

KeepsEmpty(f) ==
  (payload[f] = Str(<<>>) /\ OthersSatisfied({f}))
    => (result.kind = "record" /\ result.record[f] = Str(<<>>))

DefaultsForAbsent ==
  (result.kind = "record")
    => /\ payload.color = Absent => result.record.color = Str(DefaultColor)
       /\ payload.icon = Absent => result.record.icon = Str(DefaultIcon)
       /\ payload.target_days = Absent => result.record.target_days = List(<<>>)
       /\ payload.status = Absent => result.record.status = Str(S_active)

KeepsEmptyTargetDays ==
  (payload.target_days = List(<<>>) /\ OthersSatisfied({"target_days"}))
    => (result.kind = "record" /\ result.record.target_days = List(<<>>))

\* C5 as claimed: absent color, icon, target_days and status get their
\* defaults, and each of them supplied empty is kept as supplied.
C5_EmptyKeptEveryField ==
  (pc = "done" /\ result.model = "Habit")
    => /\ DefaultsForAbsent
       /\ KeepsEmpty("color")
       /\ KeepsEmpty("icon")
       /\ KeepsEmpty("status")
       /\ KeepsEmptyTargetDays

\* C5 as amended: absent color, icon, target_days and status get their
\* defaults; an empty color, icon or target_days is kept as supplied; an
\* empty status is refused with an error naming status, never defaulted.
C5_EmptyKeptOrRefused ==
  (pc = "done" /\ result.model = "Habit")
    => /\ DefaultsForAbsent
       /\ KeepsEmpty("color")
       /\ KeepsEmpty("icon")
       /\ KeepsEmptyTargetDays
       /\ payload.status = Str(<<>>) => (Rejected /\ Names("status"))

\* A Habit was constructed from an empty color and icon and no target_days
\* or status.
C5_Witness ==
  /\ pc = "done"
  /\ result.model = "Habit"
  /\ result.kind = "record"
  /\ payload.color = Str(<<>>)
  /\ payload.icon = Str(<<>>)
  /\ payload.target_days = Absent
  /\ payload.status = Absent

(* C6 *)

Violated == {f \in FieldsOf(result.model) : ~Satisfies(f, payload[f])}

\* C6: a payload violating the constraints of several fields produces no
\* record, and the error names every violated field.
C6_EveryViolationListed ==
  (HabitConstructed /\ Cardinality(Violated) >= 2)
    => (Rejected /\ \A f \in Violated : Names(f))

(* C7 *)

\* C7: with a valid email and a non-empty name, UserRegistration succeeds
\* exactly when the password has at least 8 characters, and a shorter
\* password is refused with an error naming password.
C7_PasswordBoundary ==
  (/\ pc = "done"
   /\ result.model = "UserRegistration"
   /\ IsStr(payload.email)
   /\ EmailValid(payload.email[2])
   /\ IsStr(payload.name)
   /\ Len(payload.name[2]) >= 1
   /\ IsStr(payload.password))
    => /\ (result.kind = "record") <=> (Len(payload.password[2]) >= 8)
       /\ Len(payload.password[2]) <= 7 => (Rejected /\ Names("password"))
       /\ result.kind = "record" => result.record.password = payload.password

\* A registration with a password of exactly 8 characters succeeded.
C7_Witness ==
  /\ pc = "done"
  /\ result.model = "UserRegistration"
  /\ result.kind = "record"
  /\ Len(payload.password[2]) = 8

(* C8 *)

\* C8: constructing a Habit from the serialization of a constructed Habit
\* succeeds and yields a record equal to it field for field.
C8_RoundTrip ==
  (pc = "roundtrip")
    => (result.kind = "record" /\ result.record = original.record)

\* A Habit holding an explicit empty color, no description and a non-empty
\* target_days went through the round trip.
C8_Witness ==
  /\ pc = "roundtrip"
  /\ original.set
  /\ original.record.color = Str(<<>>)
  /\ original.record.description = None
  /\ original.record.target_days = List(<<1, 0>>)

(* C9 *)

\* C9: whatever its holder does, a constructed Habit keeps the field values
\* it had at construction.
C9_RecordsImmutable ==
  \A i \in 1..Len(habits) : HabitValue(habits[i]) = habits[i].orig

(* C10 *)

\* C10: a record constructed without target_days has a list of its own: it
\* holds exactly the entries added through that record, so it starts empty
\* and an entry added to another record's list does not show in it.
C10_FreshDefaultList ==
  \A i \in 1..Len(habits) :
    habits[i].defaulted
      => HabitValue(habits[i]).target_days = List(habits[i].appended)

\* Two records constructed without target_days, one with an entry added and
\* the other, constructed after it, still empty.
C10_Witness ==
  /\ Len(habits) >= 2
  /\ habits[1].defaulted
  /\ habits[2].defaulted
  /\ habits[1].appended # <<>>
  /\ habits[2].appended = <<>>

====
